---- MODULE Spec2Model ----
(***************************************************************************)
(* Model of server.js: the bridge between the MetaTrader ZeroMQ dealer     *)
(* socket, the WebSocket clients and the HTTP routes.  Every handler the   *)
(* event loop can run (connection, message, close, dealer message, the     *)
(* simulation interval, the two /api routes, SIGINT, the server.close      *)
(* callback) is one action; handlers run to completion, as in Node.        *)
(***************************************************************************)
EXTENDS Integers, Sequences, FiniteSets, TLC

\* ---------------------------------------------------------------- bounds
MaxSessions == 2   \* WebSocket objects that may ever connect
MaxUpdates  == 2   \* upstream snapshot updates applied in a run
MaxCommands == 1   \* messages handed to dealer.send in a run
MaxHistory  == 1   \* history_data messages held in the streams

Sessions == 1..MaxSessions

\* ------------------------------------------------------------- constants
\* Prices are in units of 0.0001.
basePrice == 10750
spread    == 2

Undefined == "undefined"
Malformed == [bad |-> TRUE]         \* text JSON.parse throws on

Falsy(v) == v \in {Undefined, ""}

\* JSON text is modelled by the value it encodes, wrapped; parsing unwraps
\* and throws on Malformed.
JSONstringify(v) == [json |-> v]
ParseThrows(m)   == m = Malformed
JSONparse(m)     == m.json

\* initial value of marketData (symbol, bid, ask kept; the other fields
\* are carried along unread by every handler)
ZeroSnapshot == [symbol |-> "EURUSD", bid |-> 0, ask |-> 0]

\* the mock history array of sendTradeHistory, keyed by index
history ==
  [i0 |-> [ticket |-> 12345, type |-> "BUY",  profit |-> 27],
   i1 |-> [ticket |-> 12346, type |-> "SELL", profit |-> 22]]

MarketDataMsg(md) == JSONstringify([type |-> "market_data", data |-> md])
HistoryDataMsg    == JSONstringify([type |-> "history_data", data |-> history])

\* ---------------------------------------------------------------- inputs
UpstreamBids == {0, basePrice + 1}
\* documents the backend may send: snapshots (symbol present) and other
\* shapes (no symbol), plus text that does not parse
UpstreamDocs ==
  {[symbol |-> "EURUSD", bid |-> b, ask |-> b + spread] : b \in UpstreamBids}
  \cup {[symbol |-> Undefined, bid |-> 0, ask |-> 0]}
UpstreamMsgs == {Malformed} \cup {JSONstringify(d) : d \in UpstreamDocs}

\* (command, params) pairs a client may submit
CommandInputs ==
  {<<Undefined, Undefined>>, <<"", "lots">>, <<"BUY", "lots">>}
ClientMsgs ==
  {Malformed}
  \cup {JSONstringify([type |-> "command", command |-> c[1], params |-> c[2]]) :
          c \in CommandInputs}
  \cup {JSONstringify([type |-> ty, command |-> Undefined, params |-> Undefined]) :
          ty \in {"get_history", "ping"}}

\* Math.random() in [0,1): movement in [-0.0010, 0.0010)
SimBids == {basePrice - 10}

\* ----------------------------------------------------------------- state
VARIABLES
  dealer,        \* "none" (zmq.socket threw), "open", "closed"
  marketData,    \* the latest snapshot
  clients,       \* the Set of registered WebSocket objects
  readyState,    \* ws.readyState of every WebSocket object
  sent,          \* per WebSocket, the strings handed to ws.send, in order
  upstreamSent,  \* the strings handed to dealer.send, in order
  httpRes,       \* the HTTP response written by the handler that just ran
  listening,     \* the HTTP server accepts connections
  exited,        \* process.exit was called
  stored,        \* history: every value marketData has held, with its origin
  ignored,       \* history: what the handler that just ran left unhandled
  shutdownLog    \* history: the calls of the shutdown path, in order

vars == <<dealer, marketData, clients, readyState, sent, upstreamSent,
          httpRes, listening, exited, stored, ignored, shutdownLog>>

NoResponse == [status |-> 0, body |-> [none |-> TRUE]]

Init ==
  /\ dealer \in {"none", "open"}
  /\ marketData = ZeroSnapshot
  /\ clients = {}
  /\ readyState = [s \in Sessions |-> "CONNECTING"]
  /\ sent = [s \in Sessions |-> <<>>]
  /\ upstreamSent = <<>>
  /\ httpRes = NoResponse
  /\ listening = TRUE
  /\ exited = FALSE
  /\ stored = <<[src |-> "init", data |-> ZeroSnapshot]>>
  /\ ignored = "none"
  /\ shutdownLog = <<>>

UpstreamUpdates == SelectSeq(stored, LAMBDA e : e.src = "upstream")

\* ------------------------------------------------------------- functions
\* mutant: the message is sent a second time
sendToMT4_twice(command, params) ==
  IF dealer # "open" THEN upstreamSent
  ELSE upstreamSent
       \o <<JSONstringify([command |-> command, params |-> params]),
            JSONstringify([command |-> command, params |-> params])>>

\* sendToMT4: the value of the dealer's outbound log after the call
sendToMT4(command, params) ==
  IF dealer = "none" THEN upstreamSent                    \* if (!dealer) return
  ELSE IF dealer = "closed" THEN upstreamSent             \* send throws, caught
  ELSE Append(upstreamSent,
              JSONstringify([command |-> command, params |-> params]))

\* mutant: the history is pushed to every registered socket
sendTradeHistory_toAll(ws) ==
  [s \in Sessions |->
     IF s \in clients THEN Append(sent[s], HistoryDataMsg) ELSE sent[s]]

\* sendTradeHistory(ws): the value of sent after the call
sendTradeHistory(ws) ==
  [sent EXCEPT ![ws] = Append(@, HistoryDataMsg)]

\* mutant: the readyState test is inverted
broadcastMarketData_inverted(md) ==
  [s \in Sessions |->
     IF s \in clients /\ readyState[s] # "OPEN"
     THEN Append(sent[s], MarketDataMsg(md))
     ELSE sent[s]]

\* mutant: the loop ends at the first member that is not OPEN (members are
\* visited in the order they were added)
broadcastMarketData_abort(md) ==
  [s \in Sessions |->
     IF /\ s \in clients
        /\ \A t \in clients : t <= s => readyState[t] = "OPEN"
     THEN Append(sent[s], MarketDataMsg(md))
     ELSE sent[s]]

\* mutant: the loop without the readyState test
broadcastMarketData_all(md) ==
  [s \in Sessions |->
     IF s \in clients
     THEN Append(sent[s], MarketDataMsg(md))
     ELSE sent[s]]

\* broadcastMarketData with marketData = md: the value of sent after the call
broadcastMarketData(md) ==
  [s \in Sessions |->
     IF s \in clients /\ readyState[s] = "OPEN"
     THEN Append(sent[s], MarketDataMsg(md))
     ELSE sent[s]]

IsHistory(m) == JSONparse(m).type = "history_data"
RECURSIVE Sum(_, _)
Sum(f, S) == IF S = {} THEN 0
             ELSE LET x == CHOOSE y \in S : TRUE IN f[x] + Sum(f, S \ {x})
\* history_data messages in the open streams
HistoryCount ==
  Sum([s \in Sessions |-> Len(SelectSeq(sent[s], IsHistory))], Sessions)

\* --------------------------------------------------------------- actions
\* mutant: the session is registered but not sent the current snapshot
WsConnection_noSnapshot(ws) ==
  /\ listening /\ ~exited
  /\ readyState[ws] = "CONNECTING"
  /\ readyState' = [readyState EXCEPT ![ws] = "OPEN"]
  /\ clients' = clients \cup {ws}
  /\ httpRes' = NoResponse
  /\ ignored' = "none"
  /\ UNCHANGED <<dealer, marketData, sent, upstreamSent, listening, exited,
                 stored, shutdownLog>>

\* wss.on('connection')
WsConnection(ws) ==
  /\ listening /\ ~exited
  /\ readyState[ws] = "CONNECTING"
  /\ readyState' = [readyState EXCEPT ![ws] = "OPEN"]
  /\ clients' = clients \cup {ws}
  /\ sent' = [sent EXCEPT ![ws] = Append(@, MarketDataMsg(marketData))]
  /\ httpRes' = NoResponse
  /\ ignored' = "none"
  /\ UNCHANGED <<dealer, marketData, upstreamSent, listening, exited, stored,
                 shutdownLog>>

\* mutant: no try/catch around JSON.parse, so text that does not parse
\* ends the process with an uncaught exception
WsMessage_noCatch(ws, message) ==
  /\ ~exited
  /\ readyState[ws] = "OPEN"
  /\ IF ParseThrows(message)
     THEN /\ exited' = TRUE
          /\ ignored' = "none"
          /\ UNCHANGED <<upstreamSent, sent>>
     ELSE LET msg == JSONparse(message) IN
          /\ UNCHANGED exited
          /\ CASE msg.type = "command" ->
                    /\ Len(upstreamSent) < MaxCommands
                    /\ upstreamSent' = sendToMT4(msg.command, msg.params)
                    /\ ignored' = "none"
                    /\ UNCHANGED sent
               [] msg.type = "get_history" ->
                    /\ HistoryCount < MaxHistory
                    /\ sent' = sendTradeHistory(ws)
                    /\ ignored' = "none"
                    /\ UNCHANGED upstreamSent
               [] OTHER ->
                    /\ ignored' = "client message"
                    /\ UNCHANGED <<upstreamSent, sent>>
  /\ httpRes' = NoResponse
  /\ UNCHANGED <<dealer, marketData, clients, readyState, listening, stored,
                 shutdownLog>>

\* ws.on('message')
WsMessage(ws, message) ==
  /\ ~exited
  /\ readyState[ws] = "OPEN"
  /\ IF ParseThrows(message)
     THEN /\ ignored' = "client message"          \* catch: logged
          /\ UNCHANGED <<upstreamSent, sent>>
     ELSE LET msg == JSONparse(message) IN
          CASE msg.type = "command" ->
                 /\ Len(upstreamSent) < MaxCommands
                 /\ upstreamSent' = sendToMT4(msg.command, msg.params)
                 /\ ignored' = "none"
                 /\ UNCHANGED sent
            [] msg.type = "get_history" ->
                 /\ HistoryCount < MaxHistory
                 /\ sent' = sendTradeHistory(ws)
                 /\ ignored' = "none"
                 /\ UNCHANGED upstreamSent
            [] OTHER ->
                 /\ ignored' = "client message"   \* no case of the switch
                 /\ UNCHANGED <<upstreamSent, sent>>
  /\ httpRes' = NoResponse
  /\ UNCHANGED <<dealer, marketData, clients, readyState, listening, exited,
                 stored, shutdownLog>>

\* the peer starts closing, or the socket fails: readyState leaves OPEN
\* before the 'close' event is delivered
WsClosing(ws) ==
  /\ ~exited
  /\ readyState[ws] = "OPEN"
  /\ readyState' = [readyState EXCEPT ![ws] = "CLOSING"]
  /\ httpRes' = NoResponse
  /\ ignored' = "none"
  /\ UNCHANGED <<dealer, marketData, clients, sent, upstreamSent, listening,
                 exited, stored, shutdownLog>>

\* mutant: the 'close' listener does not unregister the session
clientsDelete_kept(set, ws) == set

\* mutant: removal by position, as in splice(indexOf(ws), 1), which takes
\* out the member added last when ws is not found
clientsDelete_splice(set, ws) ==
  IF ws \in set THEN set \ {ws}
  ELSE {x \in set : \E y \in set : y > x}

\* clients.delete(ws)
clientsDelete(set, ws) == set \ {ws}

\* the 'close' listener run for ws (readyState is CLOSED when it runs)
WsCloseHandler(ws) ==
  /\ readyState' = [readyState EXCEPT ![ws] = "CLOSED"]
  /\ clients' = clientsDelete(clients, ws)
  /\ sent' = [sent EXCEPT ![ws] = <<>>]      \* the socket's stream is gone
  /\ httpRes' = NoResponse
  /\ ignored' = IF ws \in clients THEN "none" ELSE "close"
  /\ UNCHANGED <<dealer, marketData, upstreamSent, listening, exited, stored,
                 shutdownLog>>

\* ws.on('close'): emitted once, for a socket that has left OPEN
WsClose(ws) ==
  /\ ~exited
  /\ readyState[ws] = "CLOSING"
  /\ WsCloseHandler(ws)

\* mutant: the broadcast runs before marketData is replaced
DealerOnMessage_broadcastFirst(message) ==
  /\ ~exited
  /\ dealer = "open"
  /\ IF ParseThrows(message)
     THEN /\ ignored' = "upstream message"
          /\ UNCHANGED <<marketData, sent, stored>>
     ELSE LET data == JSONparse(message) IN
          IF ~Falsy(data.symbol)
          THEN /\ Len(UpstreamUpdates) < MaxUpdates
               /\ sent' = broadcastMarketData(marketData)
               /\ marketData' = data
               /\ stored' = Append(stored, [src |-> "upstream", data |-> data])
               /\ ignored' = "none"
          ELSE /\ ignored' = "upstream message"
               /\ UNCHANGED <<marketData, sent, stored>>
  /\ httpRes' = NoResponse
  /\ UNCHANGED <<dealer, clients, readyState, upstreamSent, listening, exited,
                 shutdownLog>>

\* mutant: the test of data.symbol is missing
DealerOnMessage_noSymbolTest(message) ==
  /\ ~exited
  /\ dealer = "open"
  /\ IF ParseThrows(message)
     THEN /\ ignored' = "upstream message"
          /\ UNCHANGED <<marketData, sent, stored>>
     ELSE LET data == JSONparse(message) IN
          /\ Len(UpstreamUpdates) < MaxUpdates
          /\ marketData' = data
          /\ sent' = broadcastMarketData(data)
          /\ stored' = Append(stored, [src |-> "upstream", data |-> data])
          /\ ignored' = "none"
  /\ httpRes' = NoResponse
  /\ UNCHANGED <<dealer, clients, readyState, upstreamSent, listening, exited,
                 shutdownLog>>

\* dealer.on('message'), installed only if the dealer was created
DealerOnMessage(message) ==
  /\ ~exited
  /\ dealer = "open"
  /\ IF ParseThrows(message)
     THEN /\ ignored' = "upstream message"        \* catch: logged
          /\ UNCHANGED <<marketData, sent, stored>>
     ELSE LET data == JSONparse(message) IN
          IF ~Falsy(data.symbol)
          THEN /\ Len(UpstreamUpdates) < MaxUpdates
               /\ marketData' = data
               /\ sent' = broadcastMarketData(data)
               /\ stored' = Append(stored, [src |-> "upstream", data |-> data])
               /\ ignored' = "none"
          ELSE /\ ignored' = "upstream message"   \* no symbol
               /\ UNCHANGED <<marketData, sent, stored>>
  /\ httpRes' = NoResponse
  /\ UNCHANGED <<dealer, clients, readyState, upstreamSent, listening, exited,
                 shutdownLog>>

\* mutant: the interval callback without the test of marketData.bid
SimTick_ungated ==
  /\ ~exited
  /\ \E bid \in SimBids :
       LET sim == [symbol |-> "EURUSD", bid |-> bid, ask |-> bid + spread]
       IN /\ marketData' = sim
          /\ sent' = broadcastMarketData(sim)
          /\ stored' = Append(stored, [src |-> "sim", data |-> sim])
  /\ ignored' = "none"
  /\ httpRes' = NoResponse
  /\ UNCHANGED <<dealer, clients, readyState, upstreamSent, listening, exited,
                 shutdownLog>>

\* one firing of the interval set by simulateMarketData
SimTick ==
  /\ ~exited
  /\ IF marketData.bid = 0
     THEN /\ \E bid \in SimBids :
               LET sim == [symbol |-> "EURUSD", bid |-> bid,
                           ask |-> bid + spread]
               IN /\ marketData' = sim
                  /\ sent' = broadcastMarketData(sim)
                  /\ stored' = Append(stored, [src |-> "sim", data |-> sim])
          /\ ignored' = "none"
     ELSE /\ ignored' = "tick"
          /\ UNCHANGED <<marketData, sent, stored>>
  /\ httpRes' = NoResponse
  /\ UNCHANGED <<dealer, clients, readyState, upstreamSent, listening, exited,
                 shutdownLog>>

\* app.get('/api/market-data')
GetMarketData ==
  /\ listening /\ ~exited
  /\ httpRes' = [status |-> 200, body |-> marketData]
  /\ ignored' = "none"
  /\ UNCHANGED <<dealer, marketData, clients, readyState, sent, upstreamSent,
                 listening, exited, stored, shutdownLog>>

\* app.post('/api/command')
PostCommand(command, params) ==
  /\ listening /\ ~exited
  /\ IF Falsy(command)
     THEN /\ httpRes' = [status |-> 400,
                         body |-> [error |-> "Command is required"]]
          /\ UNCHANGED upstreamSent
     ELSE /\ Len(upstreamSent) < MaxCommands
          /\ upstreamSent' = sendToMT4(command, params)
          /\ httpRes' = [status |-> 200,
                         body |-> [success |-> TRUE, message |-> "Command sent"]]
  /\ ignored' = "none"
  /\ UNCHANGED <<dealer, marketData, clients, readyState, sent, listening,
                 exited, stored, shutdownLog>>

\* process.on('SIGINT'): dealer.close(), then server.close(callback)
SIGINT ==
  /\ listening /\ ~exited
  /\ dealer' = IF dealer = "open" THEN "closed" ELSE dealer
  /\ listening' = FALSE
  /\ shutdownLog' = shutdownLog
                    \o (IF dealer # "none" THEN <<"dealer.close">> ELSE <<>>)
                    \o <<"server.close">>
  /\ httpRes' = NoResponse
  /\ ignored' = "none"
  /\ UNCHANGED <<marketData, clients, readyState, sent, upstreamSent, exited,
                 stored>>

\* connections the HTTP server still holds (upgraded sockets included)
Connections == {s \in Sessions : readyState[s] \in {"OPEN", "CLOSING"}}

\* the callback of server.close: runs once every connection has ended
ServerClosed ==
  /\ ~listening /\ ~exited
  /\ Connections = {}
  /\ exited' = TRUE
  /\ shutdownLog' = Append(shutdownLog, "process.exit")
  /\ httpRes' = NoResponse
  /\ ignored' = "none"
  /\ UNCHANGED <<dealer, marketData, clients, readyState, sent, upstreamSent,
                 listening, stored>>

Next ==
  \/ \E ws \in Sessions : WsConnection(ws)
  \/ \E ws \in Sessions, m \in ClientMsgs : WsMessage(ws, m)
  \/ \E ws \in Sessions : WsClosing(ws)
  \/ \E ws \in Sessions : WsClose(ws)
  \/ \E m \in UpstreamMsgs : DealerOnMessage(m)
  \/ SimTick
  \/ GetMarketData
  \/ \E c \in CommandInputs : PostCommand(c[1], c[2])
  \/ SIGINT
  \/ ServerClosed

Spec == Init /\ [][Next]_vars

\* The event loop runs a due timer and a pending close callback; client
\* and backend traffic and signals are the environment's choice.
FairSpec == Spec /\ WF_vars(SimTick) /\ WF_vars(ServerClosed)

\* ws emits 'close' for every socket that has left OPEN
CloseFairSpec == Spec /\ \A ws \in Sessions : WF_vars(WsClose(ws))

\* ------------------------------------- the 'close' listener on its own
\* The listener run as a function of the state it finds: on any state the
\* server can be in after start-up, for any socket that has connected,
\* registered or not.
SnapshotValues(d) ==
  {ZeroSnapshot}
  \cup {[symbol |-> "EURUSD", bid |-> b, ask |-> b + spread] : b \in SimBids}
  \cup (IF d = "open"
        THEN {x \in UpstreamDocs : ~Falsy(x.symbol)} ELSE {})

CloseInit ==
  /\ dealer \in {"none", "open"}
  /\ marketData \in SnapshotValues(dealer)
  /\ readyState \in [Sessions -> {"CONNECTING", "OPEN", "CLOSING", "CLOSED"}]
  /\ clients = {s \in Sessions : readyState[s] \in {"OPEN", "CLOSING"}}
  /\ sent = [s \in Sessions |->
               IF s \in clients THEN <<MarketDataMsg(marketData)>> ELSE <<>>]
  /\ upstreamSent = <<>>
  /\ httpRes = NoResponse
  /\ listening = TRUE
  /\ exited = FALSE
  /\ stored = <<[src |-> "init", data |-> ZeroSnapshot]>>
              \o (IF marketData = ZeroSnapshot THEN <<>>
                  ELSE <<[src |-> IF marketData.bid \in SimBids
                                  THEN "sim" ELSE "upstream",
                          data |-> marketData]>>)
  /\ ignored = "none"
  /\ shutdownLog = <<>>

CloseEvent(ws) ==
  /\ readyState[ws] # "CONNECTING"
  /\ WsCloseHandler(ws)

CloseNext == \E ws \in Sessions : CloseEvent(ws)

CloseSpec == CloseInit /\ [][CloseNext]_vars

\* ------------------------------------------------- helpers of the claims
IsMarketData(m) == JSONparse(m).type = "market_data"

\* the snapshots carried by the market_data messages of a stream, in order
MarketDataOf(q) ==
  LET f == SelectSeq(q, IsMarketData)
  IN [i \in 1..Len(f) |-> JSONparse(f[i]).data]

StoredData   == [i \in 1..Len(stored) |-> stored[i].data]
UpstreamData == [i \in 1..Len(UpstreamUpdates) |-> UpstreamUpdates[i].data]

RECURSIVE IsSubseq(_, _)
IsSubseq(a, b) ==
  IF a = <<>> THEN TRUE
  ELSE IF b = <<>> THEN FALSE
  ELSE IF Head(a) = Head(b) THEN IsSubseq(Tail(a), Tail(b))
  ELSE IsSubseq(a, Tail(b))

Last(q) == q[Len(q)]

\* a step in which marketData is replaced and broadcastMarketData runs
BroadcastStep == Len(stored') = Len(stored) + 1

CommandMsg(c) ==
  JSONstringify([type |-> "command", command |-> c[1], params |-> c[2]])
GetHistoryMsg ==
  JSONstringify([type |-> "get_history", command |-> Undefined,
                 params |-> Undefined])
SuccessBody == [success |-> TRUE, message |-> "Command sent"]

\* ---------------------------------------------------------------- claims

\* C1: once an upstream snapshot update has been applied, the current
\* snapshot is the most recently applied upstream update, in every
\* reachable state (timer ticks included).
C1_LastWriterWins ==
  UpstreamUpdates # <<>> => marketData = Last(UpstreamUpdates).data

\* C2 (as claimed): at every broadcast, every session registered before it
\* is sent the broadcast snapshot, appended to what it was sent before (the
\* code keeps no bounded queue, so no queue is ever full).
C2_EveryRegisteredReceives ==
  [][BroadcastStep =>
       \A s \in clients :
         sent'[s] = Append(sent[s], MarketDataMsg(marketData'))]_vars

\* C2 (amended): at every broadcast, every registered session whose
\* readyState is OPEN is sent the broadcast snapshot, appended to what it
\* was sent before: nothing sent earlier is evicted or replaced.
C2_EveryOpenRegisteredReceives ==
  [][BroadcastStep =>
       \A s \in clients :
         readyState[s] = "OPEN" =>
           sent'[s] = Append(sent[s], MarketDataMsg(marketData'))]_vars

\* C2 witness: a broadcast reached an OPEN registered session while another
\* registered session, not OPEN, was passed over.
C2_Witness ==
  /\ Len(stored) >= 2
  /\ \E s \in clients, t \in clients :
       /\ readyState[s] = "OPEN" /\ readyState[t] = "CLOSING"
       /\ Len(sent[s]) >= 2
       /\ Last(sent[s]) = MarketDataMsg(marketData)
       /\ Last(sent[t]) # MarketDataMsg(marketData)

UpstreamUnavailableResult(r) == r.status >= 400

\* C3: a command with a name, submitted by POST or on the push channel
\* while the dealer is absent or closed, gets a failure result back: an
\* error response on the POST path, a message to the issuing socket on the
\* push channel.
C3_DisconnectedCommandFails ==
  [][dealer # "open" =>
       /\ \A c \in CommandInputs :
            (~Falsy(c[1]) /\ PostCommand(c[1], c[2]))
              => UpstreamUnavailableResult(httpRes')
       /\ \A ws \in Sessions, c \in CommandInputs :
            (~Falsy(c[1]) /\ WsMessage(ws, CommandMsg(c)))
              => Len(sent'[ws]) = Len(sent[ws]) + 1]_vars

\* C4: the step that registers a session sends it, as its first message, a
\* market_data message carrying the snapshot current at that moment; every
\* registered session's first message is that market_data message.
C4_InitialSnapshotOnConnect ==
  [][/\ \A s \in Sessions :
          (s \notin clients /\ s \in clients') =>
             /\ sent'[s] = <<MarketDataMsg(marketData)>>
             /\ marketData' = marketData
     /\ \A s \in clients' :
          /\ sent'[s] # <<>>
          /\ IsMarketData(sent'[s][1])]_vars

\* C4 witness: one session connected before any update and got the zero
\* state, another connected after an update and got that update.
C4_Witness ==
  \E s \in clients, t \in clients :
    /\ sent[s][1] = MarketDataMsg(ZeroSnapshot)
    /\ marketData # ZeroSnapshot
    /\ sent[t] = <<MarketDataMsg(marketData)>>

\* C5: handling get_history appends exactly one history_data message to
\* the requesting session's stream and changes nothing else: no other
\* stream, not the snapshot, the client set, the dealer or its outbound log.
C5_HistoryOnlyToRequester ==
  [][\A ws \in Sessions :
       WsMessage(ws, GetHistoryMsg) =>
         /\ sent'[ws] = Append(sent[ws], HistoryDataMsg)
         /\ \A t \in Sessions \ {ws} : sent'[t] = sent[t]
         /\ marketData' = marketData
         /\ clients' = clients
         /\ dealer' = dealer
         /\ upstreamSent' = upstreamSent]_vars

\* C5 witness: a session was answered with history_data while another open
\* session, registered as well, has received none.
C5_Witness ==
  \E ws \in clients, t \in clients :
    /\ ws # t
    /\ readyState[t] = "OPEN"
    /\ IsHistory(Last(sent[ws]))
    /\ SelectSeq(sent[t], IsHistory) = <<>>

\* C6: nothing with a missing or empty command name is ever transmitted
\* on the upstream link, whichever entry point it came through.
C6_EmptyNameNeverTransmitted ==
  \A i \in 1..Len(upstreamSent) : ~Falsy(JSONparse(upstreamSent[i]).command)

\* C7 (as claimed): the snapshots a session is sent form a subsequence of
\* the upstream snapshot updates, in the order they were received.
C7_SubsequenceOfUpstream ==
  \A s \in Sessions : IsSubseq(MarketDataOf(sent[s]), UpstreamData)

\* C7 (amended): the snapshots a session is sent form a subsequence of the
\* values the snapshot has held (the zero state, the upstream updates and
\* the simulated snapshots), in the order they were stored.
C7_SubsequenceOfStored ==
  \A s \in Sessions : IsSubseq(MarketDataOf(sent[s]), StoredData)

\* C7 witness: two different upstream updates were applied and a registered
\* session was sent both, in that order.
C7_Witness ==
  /\ Len(UpstreamData) = 2
  /\ UpstreamData[1] # UpstreamData[2]
  /\ \E s \in clients : IsSubseq(UpstreamData, MarketDataOf(sent[s]))

\* C8: a POST is answered with success only if the command was handed to
\* the upstream link in that step, and a push-channel command that was not
\* transmitted is answered with a message to the issuing socket.
C8_SuccessOnlyIfTransmitted ==
  [][/\ \A c \in CommandInputs :
          (PostCommand(c[1], c[2]) /\ httpRes'.body = SuccessBody)
            => Len(upstreamSent') = Len(upstreamSent) + 1
     /\ \A ws \in Sessions, c \in CommandInputs :
          (~Falsy(c[1]) /\ WsMessage(ws, CommandMsg(c))
             /\ upstreamSent' = upstreamSent)
            => sent'[ws] # sent[ws]]_vars

\* C9: while the dealer could not be created and no shutdown has been
\* requested, the connection is eventually retried with success, or a
\* shutdown is requested.
C9_RetryUntilConnected ==
  (dealer = "none" /\ listening) ~> (dealer = "open" \/ ~listening)

\* C10: after SIGINT the process eventually exits, connected clients or not.
C10_ShutdownExits ==
  (~listening) ~> exited

\* an upstream message the handler drops: it does not parse, or it parses
\* to a document with no (truthy) symbol
DroppedUpstream(m) == ParseThrows(m) \/ Falsy(JSONparse(m).symbol)

\* C11: handling an upstream message that does not parse or has no symbol
\* leaves the snapshot, every client's stream and the client set unchanged,
\* and leaves the dealer open and the process running, so that the handler
\* takes the next message.
C11_MalformedUpstreamDropped ==
  [][\A m \in UpstreamMsgs :
       (DroppedUpstream(m) /\ DealerOnMessage(m)) =>
         /\ marketData' = marketData
         /\ stored' = stored
         /\ sent' = sent
         /\ clients' = clients
         /\ dealer' = "open"
         /\ ~exited']_vars

\* C11 witness: an upstream message was just dropped while a client is
\* registered and an earlier upstream update is the current snapshot.
C11_Witness ==
  /\ ignored = "upstream message"
  /\ clients # {}
  /\ UpstreamUpdates # <<>>
  /\ marketData = Last(UpstreamUpdates).data

LifecycleSteps ==
  {<<"CONNECTING", "OPEN">>, <<"OPEN", "CLOSING">>, <<"CLOSING", "CLOSED">>}

C14_OnlyUpstreamMutates ==
  [][marketData' # marketData =>
       \E m \in UpstreamMsgs : DealerOnMessage(m)]_vars

UpstreamMsg(c) == JSONstringify([command |-> c[1], params |-> c[2]])

\* C15: while the dealer is open, a command the POST route accepts, and a
\* command message on the push channel, each append exactly one message to
\* the dealer's outbound log, carrying the submitted name and params; and
\* the log only ever grows by one message, in a step that handles a client
\* command.
C15_ExactlyOneTransmission ==
  [][/\ \A c \in CommandInputs :
          (dealer = "open" /\ ~Falsy(c[1]) /\ PostCommand(c[1], c[2]))
            => upstreamSent' = Append(upstreamSent, UpstreamMsg(c))
     /\ \A ws \in Sessions, c \in CommandInputs :
          (dealer = "open" /\ WsMessage(ws, CommandMsg(c)))
            => upstreamSent' = Append(upstreamSent, UpstreamMsg(c))
     /\ upstreamSent' # upstreamSent =>
          /\ \E c \in CommandInputs :
               \/ PostCommand(c[1], c[2])
               \/ \E ws \in Sessions : WsMessage(ws, CommandMsg(c))
          /\ Len(upstreamSent') = Len(upstreamSent) + 1
          /\ SubSeq(upstreamSent', 1, Len(upstreamSent)) = upstreamSent]_vars

\* C15 witness: a POSTed command was answered with success and is the one
\* message in the dealer's outbound log.
C15_Witness ==
  /\ upstreamSent = <<UpstreamMsg(<<"BUY", "lots">>)>>
  /\ httpRes.body = SuccessBody

\* x is called before y in log (when both are called)
Before(log, x, y) ==
  \A i \in 1..Len(log), j \in 1..Len(log) :
    (log[i] = x /\ log[j] = y) => i < j

\* C16: after the shutdown signal no session is registered any more; at
\* exit the dealer is not open and no client transport is open; and the
\* calls come in the order stop accepting (server.close), close the
\* upstream link (dealer.close), exit (process.exit).
C16_ShutdownOrder ==
  [][/\ ~listening => clients' \subseteq clients
     /\ exited' =>
          /\ dealer' # "open"
          /\ clients' = {}
          /\ \A s \in Sessions : readyState'[s] \notin {"OPEN", "CLOSING"}
     /\ Before(shutdownLog', "server.close", "dealer.close")
     /\ Before(shutdownLog', "dealer.close", "process.exit")
     /\ Before(shutdownLog', "server.close", "process.exit")]_vars

\* client messages the handler has no case for: text that does not parse,
\* or a type other than 'command' and 'get_history'
IgnoredClientMsgs ==
  {m \in ClientMsgs :
     ParseThrows(m) \/ JSONparse(m).type \notin {"command", "get_history"}}

\* C17: handling a client message that does not parse or has an unknown
\* type transmits nothing upstream, sends nothing to any client, leaves the
\* snapshot unchanged, and leaves the process running and the sender
\* registered and OPEN, so that later broadcasts still reach it.
C17_BadClientMessageContained ==
  [][\A ws \in Sessions, m \in IgnoredClientMsgs :
       WsMessage(ws, m) =>
         /\ upstreamSent' = upstreamSent
         /\ sent' = sent
         /\ marketData' = marketData
         /\ clients' = clients /\ ws \in clients'
         /\ readyState'[ws] = "OPEN"
         /\ ~exited']_vars

\* C17 witness: a client message was just ignored, its sender being one of
\* two registered OPEN sessions.
C17_Witness ==
  /\ ignored = "client message"
  /\ \E s \in clients, t \in clients :
       s # t /\ readyState[s] = "OPEN" /\ readyState[t] = "OPEN"

\* C18: running the 'close' listener for a session that is not in the
\* client set leaves the client set as it is, and running it for any
\* session leaves every other session's membership, readyState and stream
\* as they were.
C18_UnregisterIdempotent ==
  [][\A ws \in Sessions :
       CloseEvent(ws) =>
         /\ ws \notin clients => clients' = clients
         /\ ws \notin clients'
         /\ \A t \in Sessions \ {ws} :
              /\ (t \in clients') = (t \in clients)
              /\ readyState'[t] = readyState[t]
              /\ sent'[t] = sent[t]]_vars

\* C18 witness: the listener has just run for a session that was not
\* registered, while another session is.
C18_Witness ==
  /\ ignored = "close"
  /\ clients # {}

SimulatedCount == Len(SelectSeq(stored, LAMBDA e : e.src = "sim"))
ZeroBidUpstream ==
  \E i \in 1..Len(stored) :
    stored[i].src = "upstream" /\ stored[i].data.bid = 0

C20_BroadcastFrame ==
  [][BroadcastStep =>
       /\ \A s \in Sessions :
            IF s \in clients /\ readyState[s] = "OPEN"
            THEN /\ Len(sent'[s]) = Len(sent[s]) + 1
                 /\ SubSeq(sent'[s], 1, Len(sent[s])) = sent[s]
                 /\ JSONparse(Last(sent'[s])) =
                      [type |-> "market_data", data |-> Last(stored').data]
            ELSE sent'[s] = sent[s]
       /\ clients' = clients
       /\ readyState' = readyState
       /\ marketData' = Last(stored').data]_vars

\* C20 witness: a broadcast of a simulated snapshot reached the OPEN member
\* and left the closing member with only its initial snapshot.
C20_Witness ==
  /\ Last(stored).src = "sim"
  /\ marketData = Last(stored).data
  /\ \E s \in clients, t \in clients :
       /\ readyState[s] = "OPEN" /\ readyState[t] = "CLOSING"
       /\ Len(sent[s]) >= 2
       /\ Last(sent[s]) = MarketDataMsg(marketData)
       /\ sent[t] = <<MarketDataMsg(ZeroSnapshot)>>

====
